---- MODULE Spec2Model ----
(***************************************************************************)
(* Resume-Assistant: the chat-driven resume update pipeline.               *)
(*                                                                         *)
(*   resume_update.py       ResumeUpdater: update_resume_with_groq,        *)
(*                          _extract_python_list_from_response,            *)
(*                          execute_resume_updates                         *)
(*   resume_chat_widget.py  SidebarChatWidget: the session's transcript,   *)
(*                          busy flag and the per-turn handler             *)
(*   main.py                StreamlitResumeApp.run: the script that the UI *)
(*                          framework re-runs on every interaction         *)
(***************************************************************************)
EXTENDS Integers, Sequences, FiniteSets, TLC

(***************************************************************************)
(* Bounds of the exploration.                                              *)
(***************************************************************************)
\* longest command batch execute_resume_updates is called with on its own
MaxBatch == 3
\* longest command batch a reply of the service carries in a session
MaxReply == 2
\* longest chat transcript a session is followed to
MaxMsgs == 2
\* longest array the replies are allowed to build by appending
MaxArr == 2
\* longest reply body handed to the extractor
MaxText == 4
\* repositories of the user
MaxRepos == 3
\* requests one call of a retry loop is followed for
MaxAttempts == 4

VARIABLES
    resume_data,        \* st.session_state.resume_data: the session's document
    chat_messages,      \* st.session_state.chat_messages
    chat_processing,    \* st.session_state.chat_processing: the busy flag
    previous_input,     \* st.session_state.previous_input
    sidebar_chat_input, \* st.session_state.sidebar_chat_input: the text box
    pc,                 \* where the script is
    current_resume,     \* handle_message_processing: the working copy
    shared,             \* top-level keys whose value object the working copy
                        \* still shares with the session's document
    commands,           \* the parsed batch
    cmd_i,              \* execute_resume_updates: position in the batch
    executed_commands,  \* execute_resume_updates: commands that did not raise
    turn_start,         \* the session's document when the turn began
    exec_ok,            \* per command of the batch run so far: it did not raise
    last_parse,         \* what update_resume_with_groq last returned or raised
    response_text,      \* the reply text handed to the extractor
    extracted,          \* what the extractor returned for it
    repos,              \* get_github_projects: repository name -> what its
                        \* fetch_readme task returns
    pending,            \* futures as_completed has not yielded yet
    project_details,    \* get_github_projects: the result map
    readme_count,       \* get_github_projects: READMEs found
    summaries,          \* generate_project_summaries_with_progress: the map
                        \* it builds
    outcomes,           \* what summarize_readme returned or raised for each
                        \* project the loop has been through
    loop,               \* the retry loop that runs, by its function's name
    loop_retry_count,   \* its retry_count
    attempts,           \* requests it has posted
    posted,             \* the model each of them named, in order
    llm_model,          \* the model the next request will name
    loop_answer,        \* what the service answered the last of them
    loop_result         \* what it returned or raised

vars == <<resume_data, chat_messages, chat_processing, previous_input,
          sidebar_chat_input, pc, current_resume, shared, commands, cmd_i,
          executed_commands, turn_start, exec_ok, last_parse, response_text,
          extracted, repos, pending, project_details, readme_count, summaries,
          outcomes, loop,
          loop_retry_count, attempts, posted, llm_model, loop_answer, loop_result>>

(***************************************************************************)
(* Python values of a resume document (json): str, list, dict.             *)
(***************************************************************************)
Str(s) == [t |-> "str", s |-> s]
Lst(q) == [t |-> "list", q |-> q]
Dct(f) == [t |-> "dict", f |-> f]

IsStr(v) == v.t = "str"
IsList(v) == v.t = "list"
IsDict(v) == v.t = "dict"

\* a path segment: resume['key'] or resume[...][index]
Key(k) == [k |-> k]
Idx(n) == [n |-> n]
IsKey(seg) == "k" \in DOMAIN seg

EmptyMap == [x \in {} |-> Str("")]

Raise == [ok |-> FALSE, v |-> Str("")]
Ok(v) == [ok |-> TRUE, v |-> v]

(***************************************************************************)
(* What exec() does with one command string.  A command is the statement   *)
(*     resume[p1]...[pn] = val          op "Set"                           *)
(*     resume[p1]...[pn].append(val)    op "Append"                        *)
(*     resume[p1]...[pn].pop(idx)       op "RemoveAt"                      *)
(*     resume[p1]...[pn].clear()        op "Clear"                         *)
(*     text that is no Python statement op "Garbage"                       *)
(*     raise SystemExit, exit()         op "Exit"                          *)
(* and exec either completes or raises; a statement of these forms raises  *)
(* before it has changed anything.  SystemExit is no Exception: the except *)
(* clauses of the loop and of its caller let it pass.                      *)
(***************************************************************************)
Cmd(op, path, val, idx) == [op |-> op, path |-> path, val |-> val, idx |-> idx]

\* list index -> position 1..n, 0 when list[i] raises IndexError
\* (Python counts a negative index from the end)
NormIdx(n, i) ==
    IF i >= 0 /\ i < n THEN i + 1
    ELSE IF i < 0 /\ i >= 0 - n THEN n + i + 1
    ELSE 0

\* the key a subscript of a dict looks up
DictKey(seg) == IF IsKey(seg) THEN seg.k ELSE ToString(seg.n)

RemoveKey(f, k) == [x \in (DOMAIN f) \ {k} |-> f[x]]

RemovePos(q, p) == [j \in 1..(Len(q) - 1) |-> IF j < p THEN q[j] ELSE q[j + 1]]

\* v[seg]: KeyError, IndexError, TypeError (list['key']) raise.  A str
\* subscripted by an index gives a str, on which every statement form above
\* raises as well, so v[seg] of a str is taken to raise here.
GetItem(v, seg) ==
    IF IsDict(v) THEN
        IF DictKey(seg) \in DOMAIN v.f THEN Ok(v.f[DictKey(seg)]) ELSE Raise
    ELSE IF IsList(v) THEN
        IF ~IsKey(seg) /\ NormIdx(Len(v.q), seg.n) > 0
        THEN Ok(v.q[NormIdx(Len(v.q), seg.n)])
        ELSE Raise
    ELSE Raise

\* item assignment as it would be if an assignment to a list inserted
SetItemInserts(v, seg, new) ==
    IF IsDict(v) THEN Ok(Dct((DictKey(seg) :> new) @@ v.f))
    ELSE IF IsList(v) THEN
        IF ~IsKey(seg) /\ NormIdx(Len(v.q), seg.n) > 0
        THEN Ok(Lst(SubSeq(v.q, 1, NormIdx(Len(v.q), seg.n) - 1) \o <<new>>
                    \o SubSeq(v.q, NormIdx(Len(v.q), seg.n), Len(v.q))))
        ELSE Raise
    ELSE Raise

\* item assignment as it would be if an index behind the end of a list
\* lengthened the list
SetItemExtends(v, seg, new) ==
    IF IsDict(v) THEN Ok(Dct((DictKey(seg) :> new) @@ v.f))
    ELSE IF IsList(v) THEN
        IF IsKey(seg) THEN Raise
        ELSE IF NormIdx(Len(v.q), seg.n) > 0
        THEN Ok(Lst([v.q EXCEPT ![NormIdx(Len(v.q), seg.n)] = new]))
        ELSE Ok(Lst(Append(v.q, new)))
    ELSE Raise

\* v[seg] = new: a dict takes any key, new ones too; a list only an index in
\* range; a str is immutable
SetItem(v, seg, new) ==
    IF IsDict(v) THEN Ok(Dct((DictKey(seg) :> new) @@ v.f))
    ELSE IF IsList(v) THEN
        IF ~IsKey(seg) /\ NormIdx(Len(v.q), seg.n) > 0
        THEN Ok(Lst([v.q EXCEPT ![NormIdx(Len(v.q), seg.n)] = new]))
        ELSE Raise
    ELSE Raise

\* the list methods as they would be if append put the value in front
MethodPrepends(v, cmd) ==
    IF cmd.op = "Append" THEN
        IF IsList(v) THEN Ok(Lst(<<cmd.val>> \o v.q)) ELSE Raise
    ELSE IF cmd.op = "RemoveAt" THEN
        IF IsList(v) /\ NormIdx(Len(v.q), cmd.idx) > 0
        THEN Ok(Lst(RemovePos(v.q, NormIdx(Len(v.q), cmd.idx))))
        ELSE Raise
    ELSE IF cmd.op = "Clear" THEN
        IF IsList(v) THEN Ok(Lst(<<>>))
        ELSE IF IsDict(v) THEN Ok(Dct(EmptyMap))
        ELSE Raise
    ELSE Raise

\* the list methods as they would be if a dict took append as well, storing
\* the value under its own text
MethodAppendsToMap(v, cmd) ==
    IF cmd.op = "Append" THEN
        IF IsList(v) THEN Ok(Lst(Append(v.q, cmd.val)))
        ELSE IF IsDict(v) THEN Ok(Dct((cmd.val.s :> cmd.val) @@ v.f))
        ELSE Raise
    ELSE IF cmd.op = "RemoveAt" THEN
        IF IsList(v) THEN
            IF NormIdx(Len(v.q), cmd.idx) > 0
            THEN Ok(Lst(RemovePos(v.q, NormIdx(Len(v.q), cmd.idx))))
            ELSE Raise
        ELSE IF IsDict(v) THEN
            IF ToString(cmd.idx) \in DOMAIN v.f
            THEN Ok(Dct(RemoveKey(v.f, ToString(cmd.idx))))
            ELSE Raise
        ELSE Raise
    ELSE IF cmd.op = "Clear" THEN
        IF IsList(v) THEN Ok(Lst(<<>>))
        ELSE IF IsDict(v) THEN Ok(Dct(EmptyMap))
        ELSE Raise
    ELSE Raise

\* v.append(val), v.pop(idx), v.clear()
Method(v, cmd) ==
    IF cmd.op = "Append" THEN
        IF IsList(v) THEN Ok(Lst(Append(v.q, cmd.val))) ELSE Raise
    ELSE IF cmd.op = "RemoveAt" THEN
        IF IsList(v) THEN
            IF NormIdx(Len(v.q), cmd.idx) > 0
            THEN Ok(Lst(RemovePos(v.q, NormIdx(Len(v.q), cmd.idx))))
            ELSE Raise
        ELSE IF IsDict(v) THEN
            IF ToString(cmd.idx) \in DOMAIN v.f
            THEN Ok(Dct(RemoveKey(v.f, ToString(cmd.idx))))
            ELSE Raise
        ELSE Raise
    ELSE IF cmd.op = "Clear" THEN
        IF IsList(v) THEN Ok(Lst(<<>>))
        ELSE IF IsDict(v) THEN Ok(Dct(EmptyMap))
        ELSE Raise
    ELSE Raise

RECURSIVE Update(_, _, _)
\* the statement cmd, its subscripts `path` still to be followed from v: the
\* value v has once the statement has run, or Raise
Update(v, path, cmd) ==
    IF cmd.op = "Set" /\ Len(path) = 1 THEN SetItem(v, path[1], cmd.val)
    ELSE IF path = <<>> THEN
        \* `resume = val` rebinds the name and leaves the document alone
        IF cmd.op = "Set" THEN Ok(v) ELSE Method(v, cmd)
    ELSE
        LET sub == GetItem(v, Head(path)) IN
        IF ~sub.ok THEN Raise
        ELSE LET r == Update(sub.v, Tail(path), cmd) IN
             IF ~r.ok THEN Raise ELSE SetItem(v, Head(path), r.v)

\* exec(command, {"resume": resume})
ExecCommand(resume, cmd) ==
    IF cmd.op \in {"Garbage", "Exit"} THEN Raise ELSE Update(resume, cmd.path, cmd)

\* the exception exec raises is one that `except Exception` does not catch
Escapes(cmd) == cmd.op = "Exit"

(***************************************************************************)
(* Text.  A text is a sequence of symbols: "[", "]", "tick" for a          *)
(* backtick, "nl" for a line break, the blank " ", "py" for the word       *)
(* python, and "a" for any other character (letters, quotes, commas).      *)
(***************************************************************************)
IsSpace(c) == c \in {" ", "nl"}

RECURSIVE LStrip(_)
LStrip(s) == IF s # <<>> /\ IsSpace(Head(s)) THEN LStrip(Tail(s)) ELSE s

RECURSIVE RStrip(_)
RStrip(s) ==
    IF s # <<>> /\ IsSpace(s[Len(s)]) THEN RStrip(SubSeq(s, 1, Len(s) - 1)) ELSE s

\* str.strip()
Strip(s) == RStrip(LStrip(s))

RECURSIVE ReSubFence(_, _)
\* re.sub of a fence with the word python (py) or of a bare fence, each with
\* the line break behind it if there is one:
\* the leftmost matches, left to right, none overlapping
ReSubFence(s, py) ==
    IF s = <<>> THEN <<>>
    ELSE LET k == IF py THEN 4 ELSE 3
             hit == /\ Len(s) >= k
                    /\ s[1] = "tick" /\ s[2] = "tick" /\ s[3] = "tick"
                    /\ (py => s[4] = "py")
             n == IF Len(s) > k /\ s[k + 1] = "nl" THEN k + 1 ELSE k
         IN IF hit THEN ReSubFence(SubSeq(s, n + 1, Len(s)), py)
            ELSE <<Head(s)>> \o ReSubFence(Tail(s), py)

RECURSIVE BracketEnd(_, _, _)
\* the for loop of the bracket matcher from position i with bracket_count
\* open: end_pos, 0 when the loop ends without a break
BracketEnd(s, i, bracket_count) ==
    IF i > Len(s) THEN 0
    ELSE IF s[i] = "[" THEN BracketEnd(s, i + 1, bracket_count + 1)
    ELSE IF s[i] = "]" THEN
        IF bracket_count - 1 = 0 THEN i
        ELSE BracketEnd(s, i + 1, bracket_count - 1)
    ELSE BracketEnd(s, i + 1, bracket_count)

RECURSIVE FirstAt(_, _, _)
\* the first position >= i of s that holds c, 0 when there is none
FirstAt(s, c, i) ==
    IF i > Len(s) THEN 0
    ELSE IF s[i] = c THEN i
    ELSE FirstAt(s, c, i + 1)

\* findall as it would be with the greedy pattern: one match, from the first
\* '[' to the last ']'
ReFindAllGreedy(s, i) ==
    LET open == FirstAt(s, "[", i)
        closes == { j \in (open + 1)..Len(s) : s[j] = "]" }
    IN IF open = 0 \/ closes = {} THEN <<>>
       ELSE <<SubSeq(s, open, CHOOSE j \in closes : \A l \in closes : l <= j)>>

RECURSIVE ReFindAll(_, _)
\* re.findall of the non-greedy bracket pattern from position i on: each match runs
\* from a '[' to the first ']' after it, and the search resumes behind it
ReFindAll(s, i) ==
    LET open == FirstAt(s, "[", i)
        close == IF open = 0 THEN 0 ELSE FirstAt(s, "]", open + 1)
    IN IF close = 0 THEN <<>>
       ELSE <<SubSeq(s, open, close)>> \o ReFindAll(s, close + 1)

RECURSIVE MaxByLen(_)
\* max(matches, key=len): the first of the longest
MaxByLen(matches) ==
    IF Len(matches) = 1 THEN matches[1]
    ELSE LET rest == MaxByLen(Tail(matches))
         IN IF Len(rest) > Len(Head(matches)) THEN rest ELSE Head(matches)

\* the extractor as it would be if it returned the cleaned text when it
\* finds no list in it
ExtractOrCleaned(text) ==
    LET cleaned == Strip(ReSubFence(ReSubFence(text, TRUE), FALSE))
        end_pos == IF cleaned # <<>> /\ cleaned[1] = "["
                   THEN BracketEnd(cleaned, 1, 0) ELSE 0
        matches == ReFindAll(cleaned, 1)
    IN IF end_pos > 0 THEN SubSeq(cleaned, 1, end_pos)
       ELSE IF matches # <<>> THEN Strip(MaxByLen(matches))
       ELSE cleaned

\* ResumeUpdater._extract_python_list_from_response
ExtractPythonList(text) ==
    LET cleaned == Strip(ReSubFence(ReSubFence(text, TRUE), FALSE))
        end_pos == IF cleaned # <<>> /\ cleaned[1] = "["
                   THEN BracketEnd(cleaned, 1, 0) ELSE 0
        matches == ReFindAll(cleaned, 1)
    IN IF end_pos > 0 THEN SubSeq(cleaned, 1, end_pos)
       ELSE IF matches # <<>> THEN Strip(MaxByLen(matches))
       ELSE <<"[", "]">>

(***************************************************************************)
(* The language-model call and the parse of its reply.                     *)
(*                                                                         *)
(* A reply of the service is                                               *)
(*   status  "ok", "neterr" (requests raises a RequestException) or        *)
(*           "http_error" (raise_for_status raises one)                    *)
(*   body    "chat" (choices[0].message.content is there), "notjson"       *)
(*           (response.json() raises) or "nochoices" (the json lacks the   *)
(*           choices/message/content structure)                            *)
(*   text    the content                                                   *)
(*   lit     what ast.literal_eval makes of the extracted text             *)
(*   ev      what eval makes of it                                         *)
(* A parsed value is a list of command strings ("strlist"), a list with an *)
(* element that is no str ("mixedlist") or no list at all ("notlist").     *)
(***************************************************************************)
max_retries == 1

Parsed(shape, cmds) == [shape |-> shape, cmds |-> cmds]
Outcome(kind, val) == [kind |-> kind, val |-> val]
NoValue == Parsed("notlist", <<>>)

Returned(cmds, how) == [raised |-> FALSE, exc |-> "", commands |-> cmds, how |-> how]
Propagated(exc) == [raised |-> TRUE, exc |-> exc, commands |-> <<>>, how |-> "raised"]

\* lines 133-148: the value `commands` is bound to, or the exception that
\* leaves the inner try
ParseCommands(commands_str, lit, ev) ==
    IF commands_str # <<>> /\ commands_str[1] = "["
                           /\ commands_str[Len(commands_str)] = "]" THEN
        IF lit.kind = "value" THEN [exc |-> "", val |-> lit.val, how |-> "literal_eval"]
        ELSE IF lit.kind \in {"ValueError", "SyntaxError"} THEN
            IF ev.kind = "value" THEN [exc |-> "", val |-> ev.val, how |-> "eval"]
            ELSE [exc |-> "", val |-> Parsed("strlist", <<>>), how |-> "eval_failed"]
        ELSE [exc |-> lit.kind, val |-> NoValue, how |-> "raised"]
    ELSE [exc |-> "", val |-> Parsed("strlist", <<>>), how |-> "not_bracketed"]

\* the try block as it would be without the test of lines 151-155: whatever
\* was parsed is returned
AttemptUnvalidated(reply) ==
    IF reply.status # "ok" THEN Propagated("RequestException")
    ELSE IF reply.body = "notjson" THEN Propagated("RequestException")
    ELSE IF reply.body = "nochoices" THEN Propagated("KeyError")
    ELSE LET p == ParseCommands(ExtractPythonList(Strip(reply.text)), reply.lit, reply.ev)
         IN IF p.exc # "" THEN Propagated(p.exc)
            ELSE Returned(p.val.cmds, p.how)

\* lines 120-155: one pass through the try block: the list returned, or the
\* exception raised in it
Attempt(reply) ==
    IF reply.status # "ok" THEN Propagated("RequestException")
    ELSE IF reply.body = "notjson" THEN Propagated("RequestException")
    ELSE IF reply.body = "nochoices" THEN Propagated("KeyError")
    ELSE LET p == ParseCommands(ExtractPythonList(Strip(reply.text)), reply.lit, reply.ev)
         IN IF p.exc # "" THEN Propagated(p.exc)
            ELSE IF p.val.shape = "strlist" THEN Returned(p.val.cmds, p.how)
            ELSE Propagated("ValueError")

\* line 157: except (SyntaxError, ValueError, requests.exceptions.RequestException)
Caught(exc) == exc \in {"SyntaxError", "ValueError", "RequestException"}

RECURSIVE RetryLoop(_, _)
\* lines 119-173: the while loop from retry_count on, replies[n] the reply
\* to the n-th request
RetryLoop(replies, retry_count) ==
    IF ~(retry_count < max_retries) THEN Returned(<<>>, "exhausted")
    ELSE LET a == Attempt(replies[retry_count + 1])
         IN IF ~a.raised THEN a
            ELSE IF ~Caught(a.exc) THEN a
            ELSE IF retry_count + 1 >= max_retries THEN Returned(<<>>, "exhausted")
            ELSE RetryLoop(replies, retry_count + 1)

\* ResumeUpdater.update_resume_with_groq
UpdateResumeWithGroq(replies) == RetryLoop(replies, 0)

(***************************************************************************)
(* The inputs of a session: the generated document, what the user types,   *)
(* what the service replies.                                               *)
(***************************************************************************)
Project(name, description) ==
    Dct([name |-> Str(name), description |-> Lst(description)])

Resume(name, skills, projects) ==
    Dct([overview |-> Dct([name |-> Str(name)]),
         skills |-> Lst(skills),
         projects |-> Lst(projects)])

\* documents generate_structured_resume hands to the session
InitialDocs ==
    { Resume("Ann", <<Str("Python")>>, <<Project("A", <<Str("x")>>)>>) }

NoDoc == Dct(EmptyMap)

\* what the user may leave in the text box
Inputs == { <<>>, <<" ">>, <<"a">>, <<" ", "a">> }

\* command strings the service puts into the replies of a session
SessionCommands ==
    { Cmd("Append", <<Key("skills")>>, Str("Go"), 0),
      Cmd("RemoveAt", <<Key("skills")>>, Str(""), 5),
      Cmd("Set", <<Key("skills")>>, Str("Go"), 0),
      Cmd("Exit", <<>>, Str(""), 0) }

SeqsUpTo(S, n) == UNION { [1..k -> S] : k \in 0..n }

IsAppend(c) == c.op = "Append"

\* the appends of a batch: each can lengthen a list by one
AppendCount(b) == Cardinality({ j \in 1..Len(b) : IsAppend(b[j]) })

\* the longest list under a top-level key of the document
LongestList(doc) ==
    LET lens == { Len(doc.f[k].q) : k \in { x \in DOMAIN doc.f : IsList(doc.f[x]) } }
    IN IF lens = {} THEN 0 ELSE CHOOSE m \in lens : \A l \in lens : l <= m

\* the batches a reply to a request about doc may carry
Batches(doc) ==
    { b \in SeqsUpTo(SessionCommands, MaxReply) :
        LongestList(doc) + AppendCount(b) <= MaxArr }

ParsedValues(doc) ==
    { Parsed("strlist", b) : b \in Batches(doc) }
        \cup { Parsed("mixedlist", <<>>), Parsed("notlist", <<>>) }

\* a reply with no list in it, and one whose list is wrapped in prose and
\* code fences
TextNoList == <<"a", " ", "a">>
TextList == <<"a", "nl", "tick", "tick", "tick", "nl", "[", "a", "]", "nl",
              "tick", "tick", "tick">>

Reply(status, body, text, lit, ev) ==
    [status |-> status, body |-> body, text |-> text, lit |-> lit, ev |-> ev]

\* the replies the service may give to a request about doc
Replies(doc) ==
    LET none == Outcome("value", Parsed("strlist", <<>>))
    IN { Reply(st, "chat", TextNoList, none, none) : st \in {"neterr", "http_error"} }
       \cup { Reply("ok", b, TextNoList, none, none) : b \in {"notjson", "nochoices"} }
       \cup { Reply("ok", "chat", TextNoList, none, none) }
       \cup { Reply("ok", "chat", TextList, Outcome("value", pv), none) :
                pv \in ParsedValues(doc) }
       \cup { Reply("ok", "chat", TextList, Outcome(k, NoValue), Outcome("value", pv)) :
                k \in {"ValueError", "SyntaxError"}, pv \in ParsedValues(doc) }
       \cup { Reply("ok", "chat", TextList, Outcome(k, NoValue), Outcome("Exception", NoValue)) :
                k \in {"ValueError", "SyntaxError"} }
       \cup { Reply("ok", "chat", TextList, Outcome("TypeError", NoValue), none) }

(***************************************************************************)
(* The session.  The script runs from the top on every interaction:        *)
(* pc = "idle"     the script has ended, the page waits for the user       *)
(* pc = "run"      a run starts: run() calls handle_message_processing     *)
(* pc = "run_send" the same, in a run a click on Send started              *)
(* pc = "send"     that run has reached the Send button's branch, line 436 *)
(* pc = "parse"    in the try block, before update_resume_with_groq        *)
(* pc = "exec"     in the loop of execute_resume_updates                   *)
(* pc = "finally"  at the finally clause                                   *)
(***************************************************************************)
Msg(type, content, count, why) ==
    [type |-> type, content |-> content, count |-> count, why |-> why]

\* get_github_projects has not been called
NoFetch ==
    /\ repos = EmptyMap
    /\ pending = {}
    /\ project_details = EmptyMap
    /\ readme_count = 0
    /\ summaries = EmptyMap
    /\ outcomes = EmptyMap

NoResult == [kind |-> "none", exc |-> "", val |-> <<>>]

NoAnswer == [kind |-> "none"]

\* no retry loop runs
NoLoop ==
    /\ loop = [fn |-> "none", arg |-> "", model |-> ""]
    /\ loop_retry_count = 0
    /\ attempts = 0
    /\ posted = <<>>
    /\ llm_model = ""
    /\ loop_answer = NoAnswer
    /\ loop_result = NoResult

NoParse == [raised |-> FALSE, exc |-> "", commands |-> <<>>, how |-> "none"]

Init ==
    /\ resume_data = NoDoc
    /\ chat_messages = <<>>
    /\ chat_processing = FALSE
    /\ previous_input = <<>>
    /\ sidebar_chat_input = <<>>
    /\ pc = "idle"
    /\ current_resume = NoDoc
    /\ shared = {}
    /\ commands = <<>>
    /\ cmd_i = 0
    /\ executed_commands = 0
    /\ turn_start = NoDoc
    /\ exec_ok = <<>>
    /\ last_parse = NoParse
    /\ response_text = <<>>
    /\ extracted = <<>>
    /\ NoFetch /\ NoLoop

handler_vars == <<current_resume, shared, commands, cmd_i, executed_commands,
                  turn_start, exec_ok, last_parse>>
text_vars == <<response_text, extracted>>
fetch_vars == <<repos, pending, project_details, readme_count, summaries, outcomes>>
retry_vars == <<loop, loop_retry_count, attempts, posted, llm_model,
                loop_answer, loop_result>>
side_vars == <<fetch_vars, retry_vars>>

\* the handler's locals are gone once it has returned
HandlerReturns ==
    /\ current_resume' = NoDoc
    /\ shared' = {}
    /\ commands' = <<>>
    /\ cmd_i' = 0
    /\ executed_commands' = 0
    /\ turn_start' = NoDoc
    /\ exec_ok' = <<>>
    /\ last_parse' = NoParse

(***************************************************************************)
(* generate_structured_resume (resume_generator.py 322-360) and the        *)
(* Generate button of the page (main.py 569-596).                          *)
(***************************************************************************)
generate_max_retries == 1

LoopValue(v) == [kind |-> "value", exc |-> "", val |-> v]

LoopRaised(exc) == [kind |-> "raised", exc |-> exc, val |-> <<>>]

LoopFallback(v) == [kind |-> "fallback", exc |-> "", val |-> v]

\* _get_fallback_resume_structure, resume_generator.py 423-464, of which the
\* model keeps name, skills and projects: the name is a top-level str, skills
\* a dict of lists, the description of a project a str
FallbackResume ==
    Dct([name |-> Str("Your Name"),
         skills |-> Dct([technical_skills |-> Lst(<<Str("Please")>>)]),
         projects |-> Lst(<<Dct([name |-> Str("Project Name"),
                                 description |-> Str("Please add project description here.")])>>)])

\* what the service answers a request of generate_structured_resume or of
\* summarize_readme: no answer, a status other than 2xx, a body that is no
\* json, a json without choices[0].message.content, a content json.loads
\* rejects, or a content that is fine (for generate: the json of doc)
ServiceAnswer(kind, doc) == [kind |-> kind, doc |-> doc]

GenerateAnswers ==
    { ServiceAnswer(k, NoDoc) : k \in {"neterr", "http_error", "notjson", "nochoices", "badjson"} }
        \cup { ServiceAnswer("content", d) : d \in InitialDocs }

\* resume_generator.py 326-340: one pass through the try block
GenerateAttempt(answer) ==
    IF answer.kind \in {"neterr", "http_error", "notjson"} THEN LoopRaised("RequestException")
    ELSE IF answer.kind = "nochoices" THEN LoopRaised("KeyError")
    ELSE IF answer.kind = "badjson" THEN LoopRaised("JSONDecodeError")
    ELSE LoopValue(answer.doc)

\* resume_generator.py 348: except (json.JSONDecodeError, ValueError, RequestException)
GenerateCaught(exc) == exc \in {"JSONDecodeError", "ValueError", "RequestException"}

RECURSIVE GenerateLoop(_, _)
\* resume_generator.py 325-360: the while loop from retry_count on,
\* answers[n] the answer to the n-th request
GenerateLoop(answers, n) ==
    IF ~(n < generate_max_retries) THEN LoopFallback(FallbackResume)
    ELSE LET a == GenerateAttempt(answers[n + 1])
         IN IF a.kind = "value" THEN a
            ELSE IF ~GenerateCaught(a.exc) THEN a
            ELSE IF n + 1 >= generate_max_retries THEN LoopFallback(FallbackResume)
            ELSE GenerateLoop(answers, n + 1)

\* ResumeGenerator.generate_structured_resume
GenerateStructuredResume(answers) == GenerateLoop(answers, 0)

\* render_chat_widget draws the chat only while the session holds a document
ChatShown == resume_data.f # EmptyMap

\* SidebarChatWidget.process_message, up to the write of the text box
ProcessMessage(message) ==
    /\ chat_messages' = Append(chat_messages, Msg("user", message, 0, ""))
    /\ chat_processing' = TRUE

\* handle_input_change as it would be without the test of the busy flag
HandleInputChangeWhileBusy(txt) ==
    /\ pc = "idle" /\ ChatShown
    /\ txt # sidebar_chat_input
    /\ IF txt # previous_input /\ Strip(txt) # <<>>
       THEN /\ Len(chat_messages) < MaxMsgs
            /\ ProcessMessage(Strip(txt))
            /\ sidebar_chat_input' = <<>>
            /\ previous_input' \in {txt, <<>>}
       ELSE /\ sidebar_chat_input' = txt
            /\ UNCHANGED <<chat_messages, chat_processing, previous_input>>
    /\ pc' = "run"
    /\ UNCHANGED <<resume_data, handler_vars, text_vars, side_vars>>

\* handle_input_change as it would be without the comparison with
\* previous_input
HandleInputChangeResends(txt) ==
    /\ pc = "idle" /\ ChatShown
    /\ txt # sidebar_chat_input
    /\ IF Strip(txt) # <<>> /\ ~chat_processing
       THEN /\ Len(chat_messages) < MaxMsgs
            /\ ProcessMessage(Strip(txt))
            /\ sidebar_chat_input' = <<>>
            /\ previous_input' \in {txt, <<>>}
       ELSE /\ sidebar_chat_input' = txt
            /\ UNCHANGED <<chat_messages, chat_processing, previous_input>>
    /\ pc' = "run"
    /\ UNCHANGED <<resume_data, handler_vars, text_vars, side_vars>>

\* SidebarChatWidget.handle_input_change: the user commits `txt` in the text
\* box (Enter) and the callback runs, then the script.  st.rerun() inside a
\* callback returns (newer framework) or ends the callback (older one), so
\* line 463 runs or does not.
HandleInputChange(txt) ==
    /\ pc = "idle" /\ ChatShown
    /\ txt # sidebar_chat_input
    /\ IF txt # previous_input /\ Strip(txt) # <<>> /\ ~chat_processing
       THEN /\ Len(chat_messages) < MaxMsgs
            /\ ProcessMessage(Strip(txt))
            /\ sidebar_chat_input' = <<>>
            /\ previous_input' \in {txt, <<>>}
       ELSE /\ sidebar_chat_input' = txt
            /\ UNCHANGED <<chat_messages, chat_processing, previous_input>>
    /\ pc' = "run"
    /\ UNCHANGED <<resume_data, handler_vars, text_vars, side_vars>>

\* render_chat_input, lines 422-427: a click on Send.  The button takes a
\* click while the box, as last drawn, holds more than blanks; the click
\* starts a run of the script in which the button reads True.
ClickSend ==
    /\ pc = "idle" /\ ChatShown
    /\ Strip(sidebar_chat_input) # <<>>
    /\ Len(chat_messages) < MaxMsgs
    /\ pc' = "run_send"
    /\ UNCHANGED <<resume_data, chat_messages, chat_processing, previous_input,
                   sidebar_chat_input, handler_vars, text_vars, side_vars>>

\* render_chat_input, lines 436-437, in a run a click on Send started and
\* that has passed handle_message_processing without entering it: the text
\* box is drawn and process_message is called.  Its write to the key of a
\* text box already drawn in this run the framework refuses with an
\* exception (the script ends there) or, where it allows it, is followed by
\* st.rerun().
SendClicked ==
    /\ pc = "send"
    /\ ProcessMessage(Strip(sidebar_chat_input))
    /\ \/ /\ pc' = "idle"
          /\ UNCHANGED <<sidebar_chat_input, previous_input>>
       \/ /\ sidebar_chat_input' = <<>>
          /\ previous_input' = <<>>
          /\ pc' = "run"
    /\ UNCHANGED <<resume_data, handler_vars, text_vars, side_vars>>

\* the clear-chat branch as it would be without line 432
ClearChatKeepsPrevious ==
    /\ pc = "idle" /\ ChatShown
    /\ ~chat_processing
    /\ chat_messages' = <<>>
    /\ pc' = "run"
    /\ UNCHANGED <<resume_data, chat_processing, previous_input, sidebar_chat_input,
                   handler_vars, text_vars, side_vars>>

\* render_chat_input, lines 429-433: a click on the clear-chat button, in a
\* run that passed handle_message_processing with the flag down
ClearChat ==
    /\ pc = "idle" /\ ChatShown
    /\ ~chat_processing
    /\ chat_messages' = <<>>
    /\ previous_input' = <<>>
    /\ pc' = "run"
    /\ UNCHANGED <<resume_data, chat_processing, sidebar_chat_input,
                   handler_vars, text_vars, side_vars>>

\* any other interaction with the page while a message waits: the script
\* runs again from the top
Interact ==
    /\ pc = "idle"
    /\ chat_processing
    /\ pc' = "run"
    /\ UNCHANGED <<resume_data, chat_messages, chat_processing, previous_input,
                   sidebar_chat_input, handler_vars, text_vars, side_vars>>

\* the last message of type user, lines 488-492
LastUserMessage ==
    LET us == { j \in 1..Len(chat_messages) : chat_messages[j].type = "user" }
    IN IF us = {} THEN <<>>
       ELSE chat_messages[CHOOSE j \in us : \A l \in us : l <= j].content

\* handle_message_processing, lines 486-497: the guards and the copy.
\* dict.copy() is shallow: the working copy holds the very value objects of
\* the session's document.  When the handler is not entered the script goes
\* on to draw the page; when it is, the st.rerun() of its finally clause
\* starts a run in which no button reads True any more.
BeginProcessing ==
    /\ pc \in {"run", "run_send"}
    /\ IF chat_processing /\ chat_messages # <<>> /\ LastUserMessage # <<>>
       THEN /\ current_resume' = resume_data
            /\ shared' = DOMAIN resume_data.f
            /\ turn_start' = resume_data
            /\ commands' = <<>>
            /\ cmd_i' = 0
            /\ executed_commands' = 0
            /\ exec_ok' = <<>>
            /\ last_parse' = NoParse
            /\ pc' = "parse"
       ELSE /\ pc' = IF pc = "run_send" THEN "send" ELSE "idle"
            /\ UNCHANGED handler_vars
    /\ UNCHANGED <<resume_data, chat_messages, chat_processing, previous_input,
                   sidebar_chat_input, text_vars, side_vars>>

\* lines 500-508 and 524-530: the call of update_resume_with_groq, and what
\* follows when it raises or returns no command
ParseRequest ==
    /\ pc = "parse"
    /\ \E reply \in Replies(current_resume) :
         LET r == UpdateResumeWithGroq(<<reply>>) IN
         /\ last_parse' = r
         /\ IF r.raised THEN
                /\ chat_messages' = Append(chat_messages, Msg("error", <<>>, 0, "exception"))
                /\ pc' = "finally"
                /\ UNCHANGED <<commands, cmd_i>>
            ELSE IF r.commands = <<>> THEN
                /\ chat_messages' = Append(chat_messages,
                                           Msg("error", <<>>, 0, "not understood"))
                /\ pc' = "finally"
                /\ UNCHANGED <<commands, cmd_i>>
            ELSE
                /\ commands' = r.commands
                /\ cmd_i' = 1
                /\ pc' = "exec"
                /\ UNCHANGED chat_messages
    /\ UNCHANGED <<resume_data, chat_processing, previous_input, sidebar_chat_input,
                   current_resume, shared, executed_commands, turn_start, exec_ok,
                   text_vars, side_vars>>

\* the top-level key a statement reaches the document through
TopKey(cmd) == DictKey(cmd.path[1])

\* the statement rebinds a key of the working dict itself
Rebinds(cmd) == cmd.op = "Set" /\ Len(cmd.path) = 1

\* the session's document after a statement that has run on the working
\* copy: a rebinding, or a method of the working dict itself, stays in the
\* copy; anything deeper changes a value object, which the session's document
\* holds too for as long as the key is shared
Visible(session_doc, working_doc, cmd, sh) ==
    IF cmd.path = <<>> \/ Rebinds(cmd) THEN session_doc
    ELSE IF TopKey(cmd) \in sh
    THEN Dct((TopKey(cmd) :> working_doc.f[TopKey(cmd)]) @@ session_doc.f)
    ELSE session_doc

StillShared(working_doc, cmd, sh) ==
    IF cmd.path = <<>> THEN sh \cap DOMAIN working_doc.f
    ELSE IF Rebinds(cmd) THEN sh \ {TopKey(cmd)}
    ELSE sh

\* the loop as it would be if a raising command ended it (break for continue)
ExecStepBreaks ==
    /\ pc = "exec"
    /\ cmd_i <= Len(commands)
    /\ LET cmd == commands[cmd_i]
           r == ExecCommand(current_resume, cmd)
       IN IF r.ok
          THEN /\ current_resume' = r.v
               /\ executed_commands' = executed_commands + 1
               /\ resume_data' = Visible(resume_data, r.v, cmd, shared)
               /\ shared' = StillShared(r.v, cmd, shared)
               /\ exec_ok' = Append(exec_ok, TRUE)
               /\ cmd_i' = cmd_i + 1
          ELSE /\ exec_ok' = Append(exec_ok, FALSE)
               /\ cmd_i' = Len(commands) + 1
               /\ UNCHANGED <<current_resume, executed_commands, resume_data, shared>>
    /\ UNCHANGED <<chat_messages, chat_processing, previous_input, sidebar_chat_input,
                   pc, commands, turn_start, last_parse, text_vars, side_vars>>

\* the loop as it would be if every command were resolved against the
\* document as it was passed
ExecStepOnOriginal ==
    /\ pc = "exec"
    /\ cmd_i <= Len(commands)
    /\ LET cmd == commands[cmd_i]
           r == ExecCommand(turn_start, cmd)
       IN IF r.ok
          THEN /\ current_resume' = r.v
               /\ executed_commands' = executed_commands + 1
               /\ resume_data' = Visible(resume_data, r.v, cmd, shared)
               /\ shared' = StillShared(r.v, cmd, shared)
               /\ exec_ok' = Append(exec_ok, TRUE)
               /\ pc' = pc
          ELSE /\ exec_ok' = Append(exec_ok, FALSE)
               /\ pc' = IF Escapes(cmd) THEN "finally" ELSE pc
               /\ UNCHANGED <<current_resume, executed_commands, resume_data, shared>>
    /\ cmd_i' = cmd_i + 1
    /\ UNCHANGED <<chat_messages, chat_processing, previous_input, sidebar_chat_input,
                   commands, turn_start, last_parse, text_vars, side_vars>>

\* execute_resume_updates, lines 243-251: one iteration of the loop.  An
\* exception that is no Exception leaves the loop, the function and the try
\* block of the caller, whose finally clause is next.
ExecStep ==
    /\ pc = "exec"
    /\ cmd_i <= Len(commands)
    /\ LET cmd == commands[cmd_i]
           r == ExecCommand(current_resume, cmd)
       IN IF r.ok
          THEN /\ current_resume' = r.v
               /\ executed_commands' = executed_commands + 1
               /\ resume_data' = Visible(resume_data, r.v, cmd, shared)
               /\ shared' = StillShared(r.v, cmd, shared)
               /\ exec_ok' = Append(exec_ok, TRUE)
               /\ pc' = pc
          ELSE /\ exec_ok' = Append(exec_ok, FALSE)
               /\ pc' = IF Escapes(cmd) THEN "finally" ELSE pc
               /\ UNCHANGED <<current_resume, executed_commands, resume_data, shared>>
    /\ cmd_i' = cmd_i + 1
    /\ UNCHANGED <<chat_messages, chat_processing, previous_input, sidebar_chat_input,
                   commands, turn_start, last_parse, text_vars, side_vars>>

\* the count the success message reports, line 517
ChangeCount == Len(commands)

\* lines 511-522: execute_resume_updates returns, the session takes the
\* working copy and the success message is appended
StoreResult ==
    /\ pc = "exec"
    /\ cmd_i > Len(commands)
    /\ resume_data' = current_resume
    /\ chat_messages' = Append(chat_messages, Msg("success", <<>>, ChangeCount, ""))
    /\ pc' = "finally"
    /\ UNCHANGED <<chat_processing, previous_input, sidebar_chat_input, handler_vars,
                   text_vars, side_vars>>

\* lines 532-535: the finally clause
Finally ==
    /\ pc = "finally"
    /\ chat_processing' = FALSE
    /\ pc' = "run"
    /\ HandlerReturns
    /\ UNCHANGED <<resume_data, chat_messages, previous_input, sidebar_chat_input,
                   text_vars, side_vars>>

\* main.py 569-596: the Generate button, pressed with the resume text, the
\* projects and the job description given.  The run passes
\* handle_message_processing first, which ends it while a turn is pending.
\* What generate_structured_resume returns is stored as it is; when it
\* raises, the except clause leaves the session's document alone.
GenerateResume ==
    /\ pc = "idle"
    /\ ~chat_processing
    /\ \E answers \in [1..generate_max_retries -> GenerateAnswers] :
         LET resume_json == GenerateStructuredResume(answers)
         IN resume_data' = IF resume_json.kind = "raised" THEN resume_data
                           ELSE resume_json.val
    /\ UNCHANGED <<chat_messages, chat_processing, previous_input, sidebar_chat_input,
                   pc, handler_vars, text_vars, side_vars>>

Next ==
    \/ GenerateResume
    \/ \E txt \in Inputs : HandleInputChange(txt)
    \/ ClickSend
    \/ SendClicked
    \/ ClearChat
    \/ Interact
    \/ BeginProcessing
    \/ ParseRequest
    \/ ExecStep
    \/ StoreResult
    \/ Finally

Spec == Init /\ [][Next]_vars

(***************************************************************************)
(* execute_resume_updates on its own: called with a document and a batch.  *)
(* `resume = resume_json` makes no copy, so the caller's document is the   *)
(* one the loop works on; turn_start keeps the document as it was passed.  *)
(***************************************************************************)
ApplyDocs ==
    { Resume("Ann", <<Str("Python")>>, <<Project("A", <<Str("x")>>)>>),
      Resume("Ann", <<Str("Python"), Str("Go")>>, <<>>) }

ApplyCommands ==
    { Cmd("Append", <<Key("skills")>>, Str("Go"), 0),
      Cmd("Append", <<Key("overview"), Key("name")>>, Str("Go"), 0),
      Cmd("Append", <<Key("overview")>>, Str("Go"), 0),
      Cmd("Append", <<Key("languages")>>, Str("Go"), 0),
      Cmd("RemoveAt", <<Key("skills")>>, Str(""), 0),
      Cmd("RemoveAt", <<Key("skills")>>, Str(""), 5),
      Cmd("RemoveAt", <<Key("skills")>>, Str(""), -1),
      Cmd("Set", <<Key("projects"), Idx(0), Key("description"), Idx(0)>>, Str("y"), 0),
      Cmd("Set", <<Key("skills"), Idx(1)>>, Str("Rust"), 0),
      Cmd("Set", <<Key("overview"), Key("title")>>, Str("Dr"), 0),
      Cmd("Set", <<Key("skills")>>, Str("Go"), 0),
      Cmd("Clear", <<Key("skills")>>, Str(""), 0),
      Cmd("Garbage", <<>>, Str(""), 0) }

ApplyInit ==
    /\ current_resume \in ApplyDocs
    /\ turn_start = current_resume
    /\ commands \in SeqsUpTo(ApplyCommands, MaxBatch)
    /\ cmd_i = 1
    /\ executed_commands = 0
    /\ exec_ok = <<>>
    /\ pc = "exec"
    /\ resume_data = NoDoc
    /\ shared = {}
    /\ chat_messages = <<>>
    /\ chat_processing = FALSE
    /\ previous_input = <<>>
    /\ sidebar_chat_input = <<>>
    /\ last_parse = NoParse
    /\ response_text = <<>>
    /\ extracted = <<>>
    /\ NoFetch /\ NoLoop

\* the return as it would be if a fresh, empty document were returned
ExecReturnsEmpty ==
    /\ pc = "exec"
    /\ cmd_i > Len(commands)
    /\ pc' = "returned"
    /\ current_resume' = NoDoc
    /\ UNCHANGED <<resume_data, chat_messages, chat_processing, previous_input,
                   sidebar_chat_input, shared, commands, cmd_i, executed_commands,
                   turn_start, exec_ok, last_parse, text_vars, side_vars>>

\* line 254: return resume
ExecReturn ==
    /\ pc = "exec"
    /\ cmd_i > Len(commands)
    /\ pc' = "returned"
    /\ UNCHANGED <<resume_data, chat_messages, chat_processing, previous_input,
                   sidebar_chat_input, handler_vars, text_vars, side_vars>>

ApplyNext == ExecStep \/ ExecReturn

ApplySpec == ApplyInit /\ [][ApplyNext]_vars

(***************************************************************************)
(* _extract_python_list_from_response on its own: called with a reply.     *)
(***************************************************************************)
Prefixes ==
    { <<>>, <<"a", " ">>, <<"tick", "tick", "tick", "nl">>,
      <<"a", "nl", "tick", "tick", "tick", "py", "nl">> }

Suffixes == { <<>>, <<" ", "a">>, <<"nl", "tick", "tick", "tick">> }

\* replies with backticks inside the brackets: a fence that is there, one
\* that the removal of another leaves behind, and backticks that make none
FenceTexts ==
    { <<"[", "tick", "tick", "tick", "nl", "a", "]">>,
      <<"[", "tick", "tick", "tick", "tick", "tick", "py", "tick", "]">>,
      <<"[", "tick", "tick", "]", "tick">>,
      <<"tick", "tick", "[", "[", "tick", "]", "tick">> }

ReplyTexts ==
    { pre \o body \o post :
        pre \in Prefixes, body \in SeqsUpTo({"[", "]", "a"}, MaxText), post \in Suffixes }
        \cup FenceTexts

ExtractInit ==
    /\ response_text \in ReplyTexts
    /\ extracted = <<>>
    /\ pc = "text"
    /\ resume_data = NoDoc
    /\ chat_messages = <<>>
    /\ chat_processing = FALSE
    /\ previous_input = <<>>
    /\ sidebar_chat_input = <<>>
    /\ current_resume = NoDoc
    /\ shared = {}
    /\ commands = <<>>
    /\ cmd_i = 0
    /\ executed_commands = 0
    /\ turn_start = NoDoc
    /\ exec_ok = <<>>
    /\ last_parse = NoParse
    /\ NoFetch /\ NoLoop

\* line 130: the call
Extract ==
    /\ pc = "text"
    /\ extracted' = ExtractPythonList(response_text)
    /\ pc' = "extracted"
    /\ UNCHANGED <<resume_data, chat_messages, chat_processing, previous_input,
                   sidebar_chat_input, handler_vars, response_text, side_vars>>

ExtractNext == Extract

ExtractSpec == ExtractInit /\ [][ExtractNext]_vars

(***************************************************************************)
(* get_github_projects, main.py 132-173: one fetch_readme task per         *)
(* repository runs in a thread pool; the tasks share no state, and the     *)
(* loop over as_completed takes their results in the order they finish.    *)
(* A repository answers a fetch in one of four ways:                       *)
(*   "error"      a status other than 200, or an exception in the task     *)
(*   "no_readme"  the listing holds no file whose name starts with readme  *)
(*   "empty"      the README is there and has no text                      *)
(*   "readme"     the README is there and has text                         *)
(***************************************************************************)
RepoNames == { ToString(j) : j \in 1..MaxRepos }

Answers == {"error", "no_readme", "empty", "readme"}

NoneContent == [is_none |-> TRUE, text |-> <<>>]
Text(t) == [is_none |-> FALSE, text |-> t]

\* lines 134-150: the content fetch_readme returns beside the name
FetchReadme(repo_name, answer) ==
    IF answer = "readme" THEN Text(<<"readme of", repo_name>>)
    ELSE IF answer = "empty" THEN Text(<<>>)
    ELSE NoneContent

\* `if content:`
Truthy(content) == ~content.is_none /\ content.text # <<>>

\* the session's variables in a run that only collects or retries
NoSession ==
    /\ resume_data = NoDoc
    /\ chat_messages = <<>>
    /\ chat_processing = FALSE
    /\ previous_input = <<>>
    /\ sidebar_chat_input = <<>>
    /\ current_resume = NoDoc
    /\ shared = {}
    /\ commands = <<>>
    /\ cmd_i = 0
    /\ executed_commands = 0
    /\ turn_start = NoDoc
    /\ exec_ok = <<>>
    /\ last_parse = NoParse
    /\ response_text = <<>>
    /\ extracted = <<>>

session_vars == <<resume_data, chat_messages, chat_processing, previous_input,
                  sidebar_chat_input, handler_vars, text_vars>>

\* lines 104-155: the list of repositories is there, every task submitted
FetchInit ==
    /\ repos \in UNION { [S -> Answers] : S \in SUBSET RepoNames }
    /\ pending = DOMAIN repos
    /\ project_details = EmptyMap
    /\ readme_count = 0
    /\ summaries = EmptyMap
    /\ outcomes = EmptyMap
    /\ pc = "fetch"
    /\ NoSession /\ NoLoop

\* the loop as it would be if a fetch that failed ended the collection
CollectResultAborts ==
    /\ pc = "fetch"
    /\ \E repo_name \in pending :
         LET content == FetchReadme(repo_name, repos[repo_name])
         IN IF Truthy(content)
            THEN /\ project_details' = (repo_name :> content.text) @@ project_details
                 /\ readme_count' = readme_count + 1
                 /\ pending' = pending \ {repo_name}
            ELSE /\ project_details' = EmptyMap
                 /\ readme_count' = 0
                 /\ pending' = {}
    /\ UNCHANGED <<pc, repos, summaries, outcomes, session_vars, retry_vars>>

\* lines 156-160: one iteration of the loop over as_completed: any future
\* that is still out may be the next to finish
CollectResult ==
    /\ pc = "fetch"
    /\ \E repo_name \in pending :
         LET content == FetchReadme(repo_name, repos[repo_name])
         IN /\ pending' = pending \ {repo_name}
            /\ IF Truthy(content)
               THEN /\ project_details' = (repo_name :> content.text) @@ project_details
                    /\ readme_count' = readme_count + 1
               ELSE UNCHANGED <<project_details, readme_count>>
    /\ UNCHANGED <<pc, repos, summaries, outcomes, session_vars, retry_vars>>

\* lines 121-123 and 173: return project_details (the empty map when the
\* user has no repository)
FetchReturn ==
    /\ pc = "fetch"
    /\ pending = {}
    /\ pc' = "fetched"
    /\ UNCHANGED <<session_vars, side_vars>>

FetchNext == CollectResult \/ FetchReturn

FetchSpec == FetchInit /\ [][FetchNext]_vars

(***************************************************************************)
(* The three retry loops: update_resume_with_groq (resume_update.py        *)
(* 116-173), generate_structured_resume (resume_generator.py 322-360) and  *)
(* summarize_readme (resume_generator.py 75-118).  Each is                 *)
(*     while retry_count < max_retries:                                    *)
(*         try: post the request, return what the reply gives              *)
(*         except <its exception types>:                                   *)
(*             retry_count += 1                                            *)
(*             if retry_count >= max_retries: return <its fallback>        *)
(*     return <its fallback>                                               *)
(* An exception of another type leaves the function.  The return after the *)
(* while is never reached: the loop is only left from inside.              *)
(***************************************************************************)
summarize_max_retries == 3

LoopNames == {"update_resume_with_groq", "generate_structured_resume", "summarize_readme"}

MaxRetriesOf(fn) ==
    IF fn = "update_resume_with_groq" THEN max_retries
    ELSE IF fn = "generate_structured_resume" THEN generate_max_retries
    ELSE summarize_max_retries

\* resume_generator.py 29 and 19: the model summarize_readme is called with
\* (its default, or another one), and line 109: the one the except clause
\* switches to
DefaultModel == "llama3-70b-8192"
FallbackModel == "compound-beta-mini"
PassedModels == {DefaultModel, "mixtral-8x7b-32768"}

\* the model of the payload the loop builds after a failure it caught
ModelKept(l, m) == m

\* line 109, in the except clause of summarize_readme only; the other two
\* loops build their payload once, before the loop
ModelAfterFailure(l, m) == IF l.fn = "summarize_readme" THEN FallbackModel ELSE m

\* contents the service returns as a summary; "q3" is a run of three quote
\* characters (""" or the same of single quotes)
SummaryTexts ==
    { <<"a">>,
      <<" ", "a", "nl", " ", "a", " ">>,
      <<"q3", "a", " ", "q3", " ", "a">> }

SummarizeAnswers ==
    { ServiceAnswer(k, <<>>) : k \in {"neterr", "http_error", "notjson", "nochoices"} }
        \cup { ServiceAnswer("content", t) : t \in SummaryTexts }

RECURSIVE RemoveTripleQuotes(_)
\* lines 103: .replace of both triple quotes by ''
RemoveTripleQuotes(s) ==
    IF s = <<>> THEN <<>>
    ELSE IF Head(s) = "q3" THEN RemoveTripleQuotes(Tail(s))
    ELSE <<Head(s)>> \o RemoveTripleQuotes(Tail(s))

RECURSIVE JoinSplit(_)
\* line 104: ' '.join(s.split()): the words of s, one blank between them
JoinSplit(s) ==
    LET t == LStrip(s)
        sp == { j \in 1..Len(t) : IsSpace(t[j]) }
        k == IF sp = {} THEN Len(t) + 1 ELSE CHOOSE j \in sp : \A l \in sp : j <= l
        rest == JoinSplit(SubSeq(t, k, Len(t)))
    IN IF t = <<>> THEN <<>>
       ELSE IF rest = <<>> THEN SubSeq(t, 1, k - 1)
       ELSE SubSeq(t, 1, k - 1) \o <<" ">> \o rest

\* lines 100-104: what is made of the content
CleanSummary(content) == JoinSplit(RemoveTripleQuotes(Strip(content)))

\* resume_generator.py 96-106: one pass through the try block
SummarizeAttempt(answer, repo_name) ==
    IF answer.kind \in {"neterr", "http_error", "notjson"} THEN LoopRaised("RequestException")
    ELSE IF answer.kind = "nochoices" THEN LoopRaised("KeyError")
    ELSE LoopValue(CleanSummary(answer.doc))

\* resume_generator.py 108: except requests.exceptions.RequestException
SummarizeCaught(exc) == exc = "RequestException"

\* resume_generator.py 113 and 118
SummaryFallback(repo_name) == <<"Project:", repo_name, "- Unable to generate summary">>

\* resume_update.py 120-155, as a result of the loop: the list returned and
\* the way it was parsed
UpdateAttempt(reply) ==
    LET a == Attempt(reply)
    IN IF a.raised THEN LoopRaised(a.exc)
       ELSE LoopValue([commands |-> a.commands, how |-> a.how])

\* what the service can answer the request of one pass through the loop
AnswersOf(l) ==
    IF l.fn = "update_resume_with_groq" THEN Replies(current_resume)
    ELSE IF l.fn = "generate_structured_resume" THEN GenerateAnswers
    ELSE SummarizeAnswers

\* the result of one pass through the try block of the loop
AttemptOf(l, answer) ==
    IF l.fn = "update_resume_with_groq" THEN UpdateAttempt(answer)
    ELSE IF l.fn = "generate_structured_resume" THEN GenerateAttempt(answer)
    ELSE SummarizeAttempt(answer, l.arg)

CaughtBy(l, exc) ==
    IF l.fn = "update_resume_with_groq" THEN Caught(exc)
    ELSE IF l.fn = "generate_structured_resume" THEN GenerateCaught(exc)
    ELSE SummarizeCaught(exc)

FallbackOf(l) ==
    IF l.fn = "update_resume_with_groq" THEN <<>>
    ELSE IF l.fn = "generate_structured_resume" THEN FallbackResume
    ELSE SummaryFallback(l.arg)

\* one of the three functions is called: update_resume_with_groq with a
\* document, summarize_readme with the name of a repository
RetryInit ==
    /\ loop \in { [fn |-> fn, arg |-> "", model |-> DefaultModel] :
                    fn \in {"update_resume_with_groq", "generate_structured_resume"} }
               \cup { [fn |-> "summarize_readme", arg |-> r, model |-> m] :
                        r \in RepoNames, m \in PassedModels }
    /\ current_resume \in IF loop.fn = "update_resume_with_groq" THEN ApplyDocs ELSE {NoDoc}
    /\ loop_retry_count = 0
    /\ attempts = 0
    /\ posted = <<>>
    /\ llm_model = loop.model
    /\ loop_answer = NoAnswer
    /\ loop_result = NoResult
    /\ pc = "loop"
    /\ resume_data = NoDoc
    /\ chat_messages = <<>>
    /\ chat_processing = FALSE
    /\ previous_input = <<>>
    /\ sidebar_chat_input = <<>>
    /\ shared = {}
    /\ commands = <<>>
    /\ cmd_i = 0
    /\ executed_commands = 0
    /\ turn_start = NoDoc
    /\ exec_ok = <<>>
    /\ last_parse = NoParse
    /\ response_text = <<>>
    /\ extracted = <<>>
    /\ NoFetch

\* the loop as it would be if the except clause did not count the retry
RetryStepForgetsCount ==
    /\ pc = "loop"
    /\ loop_retry_count < MaxRetriesOf(loop.fn)
    /\ attempts < MaxAttempts
    /\ attempts' = attempts + 1
    /\ posted' = Append(posted, llm_model)
    /\ \E answer \in AnswersOf(loop) :
         LET a == AttemptOf(loop, answer) IN
         /\ loop_answer' = answer
         /\ IF a.kind = "value" \/ ~CaughtBy(loop, a.exc)
            THEN /\ loop_result' = a
                 /\ pc' = "loop_done"
                 /\ UNCHANGED <<loop_retry_count, llm_model>>
            ELSE /\ llm_model' = ModelAfterFailure(loop, llm_model)
                 /\ UNCHANGED <<loop_retry_count, loop_result, pc>>
    /\ UNCHANGED <<loop, session_vars, fetch_vars>>

\* one iteration of the while loop: the request, then the return, the
\* exception that leaves the function, or the except clause
RetryStep ==
    /\ pc = "loop"
    /\ loop_retry_count < MaxRetriesOf(loop.fn)
    /\ attempts < MaxAttempts
    /\ attempts' = attempts + 1
    /\ posted' = Append(posted, llm_model)
    /\ \E answer \in AnswersOf(loop) :
         LET a == AttemptOf(loop, answer) IN
         /\ loop_answer' = answer
         /\ IF a.kind = "value" \/ ~CaughtBy(loop, a.exc)
            THEN /\ loop_result' = a
                 /\ pc' = "loop_done"
                 /\ UNCHANGED <<loop_retry_count, llm_model>>
            ELSE /\ llm_model' = ModelAfterFailure(loop, llm_model)
                 /\ loop_retry_count' = loop_retry_count + 1
                 /\ IF loop_retry_count + 1 >= MaxRetriesOf(loop.fn)
                    THEN /\ loop_result' = LoopFallback(FallbackOf(loop))
                         /\ pc' = "loop_done"
                    ELSE UNCHANGED <<loop_result, pc>>
    /\ UNCHANGED <<loop, session_vars, fetch_vars>>

RetryNext == RetryStep

RetrySpec == RetryInit /\ [][RetryNext]_vars

\* the loop runs on: every request it posts is answered or fails
RetryFairSpec == RetrySpec /\ WF_vars(RetryStep)

(***************************************************************************)
(* generate_project_summaries_with_progress, main.py 176-218, called at    *)
(* main.py 538-539 with what get_github_projects returned, when that is    *)
(* not empty.  The loop goes through the items of the map and calls        *)
(* summarize_readme for each with the default model.  Outside the inner    *)
(* try the loop only moves the progress bar (to (i + 1) / total, which is  *)
(* in the range the bar takes) and writes the status line.                 *)
(***************************************************************************)
RECURSIVE SummarizeLoop(_, _, _)
\* resume_generator.py 77-118: the while loop from retry_count n on,
\* answers[n + 1] the answer to the next request
SummarizeLoop(answers, repo_name, n) ==
    IF ~(n < summarize_max_retries) THEN LoopFallback(SummaryFallback(repo_name))
    ELSE LET a == SummarizeAttempt(answers[n + 1], repo_name)
         IN IF a.kind = "value" THEN a
            ELSE IF ~SummarizeCaught(a.exc) THEN a
            ELSE IF n + 1 >= summarize_max_retries
                 THEN LoopFallback(SummaryFallback(repo_name))
            ELSE SummarizeLoop(answers, repo_name, n + 1)

\* ResumeGenerator.summarize_readme
SummarizeReadme(answers, repo_name) == SummarizeLoop(answers, repo_name, 0)

\* main.py 538-539 and 178-195: the call, with a map that is not empty
StartSummaries ==
    /\ pc = "fetched"
    /\ project_details # EmptyMap
    /\ summaries' = EmptyMap
    /\ outcomes' = EmptyMap
    /\ pc' = "summarize"
    /\ UNCHANGED <<repos, pending, project_details, readme_count, session_vars,
                   retry_vars>>

\* the loop as it would be if a project whose summarising raised got no entry
SummarizeProjectDrops ==
    /\ pc = "summarize"
    /\ \E project_name \in (DOMAIN project_details) \ (DOMAIN outcomes) :
         \E answers \in [1..summarize_max_retries -> SummarizeAnswers] :
            LET content == project_details[project_name]
                r == SummarizeReadme(answers, project_name)
            IN /\ outcomes' = (project_name :> r) @@ outcomes
               /\ summaries' = IF r.kind = "raised" THEN summaries
                                ELSE (project_name :> r.val) @@ summaries
    /\ UNCHANGED <<pc, repos, pending, project_details, readme_count, session_vars,
                   retry_vars>>

\* main.py 197-208: one iteration of the loop.  The map yields its items in
\* the order they were inserted, the order the fetches completed in, which
\* is any order.
SummarizeProject ==
    /\ pc = "summarize"
    /\ \E project_name \in (DOMAIN project_details) \ (DOMAIN outcomes) :
         \E answers \in [1..summarize_max_retries -> SummarizeAnswers] :
            LET content == project_details[project_name]
                r == SummarizeReadme(answers, project_name)
            IN /\ outcomes' = (project_name :> r) @@ outcomes
               /\ summaries' = IF r.kind = "raised"
                                THEN (project_name :> content) @@ summaries
                                ELSE (project_name :> r.val) @@ summaries
    /\ UNCHANGED <<pc, repos, pending, project_details, readme_count, session_vars,
                   retry_vars>>

\* main.py 210-214: the loop is through, the map is returned
ReturnSummaries ==
    /\ pc = "summarize"
    /\ DOMAIN outcomes = DOMAIN project_details
    /\ pc' = "summarized"
    /\ UNCHANGED <<session_vars, side_vars>>

SummaryNext == FetchNext \/ StartSummaries \/ SummarizeProject \/ ReturnSummaries

SummarySpec == FetchInit /\ [][SummaryNext]_vars

(***************************************************************************)
(* Properties.                                                             *)
(***************************************************************************)
ClosedOps == {"Set", "Append", "RemoveAt"}

\* C1: every command execute_resume_updates applies to the document is a
\* Set, an Append or a RemoveAt; a command that is none of the three is
\* rejected and changes nothing.
C1_ClosedCommandSet ==
    \A j \in 1..Len(exec_ok) : exec_ok[j] => commands[j].op \in ClosedOps

RECURSIVE ApplyResolving(_, _)
\* doc after the commands of cs that resolve against it, taken in order, each
\* against the document the ones before it left
ApplyResolving(doc, cs) ==
    IF cs = <<>> THEN doc
    ELSE LET r == ExecCommand(doc, Head(cs))
         IN ApplyResolving(IF r.ok THEN r.v ELSE doc, Tail(cs))

OutOfBoundsRemove == Cmd("RemoveAt", <<Key("skills")>>, Str(""), 5)

\* C2: a command that fails to resolve is skipped and every other command of
\* the batch is still applied, in order: every command is tried, the ones
\* that fail leave the document as it was, and the document returned is the
\* in-order application of the ones that resolve.
C2_PathFailureIsolation ==
    /\ Len(exec_ok) = cmd_i - 1
    /\ \A j \in 1..Len(exec_ok) :
         LET before == ApplyResolving(turn_start, SubSeq(commands, 1, j - 1))
             after == ApplyResolving(turn_start, SubSeq(commands, 1, j))
         IN /\ exec_ok[j] = ExecCommand(before, commands[j]).ok
            /\ ~exec_ok[j] => after = before
    /\ current_resume = ApplyResolving(turn_start, SubSeq(commands, 1, cmd_i - 1))
    /\ pc = "returned" => Len(exec_ok) = Len(commands)

\* a batch of 3 whose 2nd command is an out-of-bounds RemoveAt has returned:
\* commands 1 and 3 were applied, command 2 was not
C2_Witness ==
    /\ pc = "returned"
    /\ Len(commands) = 3
    /\ commands[2] = OutOfBoundsRemove
    /\ exec_ok = <<TRUE, FALSE, TRUE>>
    /\ current_resume # turn_start
    /\ commands[3].op = "Append"
    /\ current_resume.f["skills"].q[Len(current_resume.f["skills"].q)] = commands[3].val

\* C3: the count in the success message ("Applied N change(s)") is the number
\* of commands that were applied; skipped commands are not counted.
C3_AppliedCountAccurate ==
    (pc = "finally" /\ chat_messages # <<>>
        /\ chat_messages[Len(chat_messages)].type = "success")
    => chat_messages[Len(chat_messages)].count = executed_commands

AllStr(q) == \A j \in 1..Len(q) : IsStr(q[j])

WellShapedProject(v) ==
    /\ IsDict(v)
    /\ "name" \in DOMAIN v.f => IsStr(v.f["name"])
    /\ "description" \in DOMAIN v.f =>
         IsList(v.f["description"]) /\ AllStr(v.f["description"].q)

\* the shape the data model gives a document: scalar fields are scalars,
\* array fields are arrays of their element shape
WellShaped(doc) ==
    /\ IsDict(doc)
    /\ "overview" \in DOMAIN doc.f =>
         /\ IsDict(doc.f["overview"])
         /\ \A k \in DOMAIN doc.f["overview"].f : IsStr(doc.f["overview"].f[k])
    /\ "skills" \in DOMAIN doc.f =>
         IsList(doc.f["skills"]) /\ AllStr(doc.f["skills"].q)
    /\ "projects" \in DOMAIN doc.f =>
         /\ IsList(doc.f["projects"])
         /\ \A j \in 1..Len(doc.f["projects"].q) : WellShapedProject(doc.f["projects"].q[j])

\* C4: after execute_resume_updates on any batch every array field of the
\* document is still an array and every scalar field still a scalar.
C4_ShapePreserved == WellShaped(turn_start) => WellShaped(current_resume)

\* C5: during a chat turn the session's document is not changed by any
\* intermediate step of apply; it keeps its previous value until the whole
\* batch has been applied to a separate working copy.
C5_PreviousDocumentVisible == pc = "exec" => resume_data = turn_start

\* C6: whatever the language-model call does, update_resume_with_groq
\* returns a list to its caller and never propagates an exception.
C6_ParseNeverRaises == ~last_parse.raised

\* C7: when the extracted text is no valid literal list of commands,
\* update_resume_with_groq returns the empty list; it never obtains commands
\* by evaluating the text as a general expression.
C7_ParseFailsClosed == last_parse.how = "eval" => last_parse.commands = <<>>

RECURSIVE LastAt(_, _, _)
\* the last position <= i of s that holds c, 0 when there is none
LastAt(s, c, i) ==
    IF i < 1 THEN 0
    ELSE IF s[i] = c THEN i
    ELSE LastAt(s, c, i - 1)

RECURSIVE ClosesAtEnd(_, _, _)
\* s, read from position i at bracket depth d, returns to depth 0 at its last
\* symbol and not before
ClosesAtEnd(s, i, d) ==
    IF i > Len(s) THEN FALSE
    ELSE LET nd == IF s[i] = "[" THEN d + 1 ELSE IF s[i] = "]" THEN d - 1 ELSE d
         IN IF nd = 0 /\ s[i] = "]" THEN i = Len(s)
            ELSE ClosesAtEnd(s, i + 1, nd)

\* the widest bracketed span of s: from its first "[" to its last "]"
WidestSpan(s) ==
    LET open == FirstAt(s, "[", 1)
        close == LastAt(s, "]", Len(s))
    IN IF open > 0 /\ close > open THEN SubSeq(s, open, close) ELSE <<>>

\* the text holds one well-formed list, with nothing bracketed around it
HoldsOneList(s) == WidestSpan(s) # <<>> /\ ClosesAtEnd(WidestSpan(s), 1, 0)

\* C8: for every reply that holds one well-formed list, nested brackets,
\* prose before or behind it and code fences allowed, the extractor returns
\* exactly the text from the list's opening bracket to its matching close.
C8_ExtractionToleratesWrapping ==
    (pc = "extracted" /\ HoldsOneList(response_text))
    => extracted = WidestSpan(response_text)

Cleaned(text) == Strip(ReSubFence(ReSubFence(text, TRUE), FALSE))

\* the bracket matcher gives no result for the text
MatchingFails(text) ==
    \/ Cleaned(text) = <<>>
    \/ Cleaned(text)[1] # "["
    \/ BracketEnd(Cleaned(text), 1, 0) = 0

\* C9: when bracket matching fails the extractor returns the greedy widest
\* bracketed span of the text, and "[]" when the text has no bracketed span.
C9_ExtractionFallbackChain ==
    (pc = "extracted" /\ MatchingFails(response_text))
    => extracted = IF WidestSpan(Cleaned(response_text)) # <<>>
                   THEN WidestSpan(Cleaned(response_text))
                   ELSE <<"[", "]">>

\* C10: no reachable state has the busy flag up with no step pending that
\* clears it: whenever chat_processing is True the script is on its way to
\* the finally clause.
C10_NoStuckProcessing == chat_processing => pc # "idle"

\* a step that enters process_message: a user message joins the transcript
Dispatches ==
    /\ Len(chat_messages') = Len(chat_messages) + 1
    /\ chat_messages'[Len(chat_messages')].type = "user"

\* C11: while chat_processing is True no new instruction is dispatched, by
\* Enter or by the Send button: process_message is only ever entered with
\* chat_processing False.
C11_BusyFlagExcludesOverlap == [][Dispatches => ~chat_processing]_vars

\* the user has committed a new, non-blank text while the flag was up, and
\* the run that follows starts without a second user message
C11_Witness ==
    /\ chat_processing
    /\ pc = "run"
    /\ Strip(sidebar_chat_input) # <<>>
    /\ sidebar_chat_input # previous_input
    /\ Cardinality({ j \in 1..Len(chat_messages) : chat_messages[j].type = "user" }) = 1

IsReply(m) == m.type \in {"success", "error"}

\* every user message is followed by exactly one success or error message
\* before the next user message
TurnsPaired(msgs) ==
    \A j \in 1..Len(msgs) :
        /\ msgs[j].type = "user" => (j < Len(msgs) /\ IsReply(msgs[j + 1]))
        /\ IsReply(msgs[j]) => (j > 1 /\ msgs[j - 1].type = "user")

\* C12: each user turn appends the user message, sets busy, runs parse and
\* apply once, appends exactly one success or error message and clears busy:
\* in every Idle state (the page waits, the flag is down) every user message
\* of the transcript is followed by exactly one success or error message.
C12_TurnStructure == (pc = "idle" /\ ~chat_processing) => TurnsPaired(chat_messages)

\* an exception left the apply loop
ExceptionEscaped == \E j \in 1..Len(exec_ok) : ~exec_ok[j] /\ Escapes(commands[j])

\* the turn is at its end and no edit was applied by it: the parse step
\* raised or returned the empty list, or an exception ended the apply step
TurnFailed ==
    /\ pc = "finally"
    /\ last_parse.raised \/ last_parse.commands = <<>> \/ ExceptionEscaped

\* C13: whenever a chat turn ends without an applied edit the session's
\* document is exactly what it was before the turn and an error message has
\* been appended to the transcript.
C13_FailureMeansNoChange ==
    TurnFailed =>
        /\ resume_data = turn_start
        /\ chat_messages # <<>>
        /\ chat_messages[Len(chat_messages)].type = "error"

\* C14: execute_resume_updates with an empty command list returns a document
\* identical to its input.
C14_EmptyBatchNoOp ==
    (pc = "returned" /\ commands = <<>>) =>
        (current_resume = turn_start /\ executed_commands = 0)

\* the call with the empty list has returned
C14_Witness == pc = "returned" /\ commands = <<>> /\ turn_start \in ApplyDocs

RECURSIVE Resolve(_, _)
\* the element of v at path, if the path resolves
Resolve(v, path) ==
    IF path = <<>> THEN Ok(v)
    ELSE LET sub == GetItem(v, Head(path))
         IN IF sub.ok THEN Resolve(sub.v, Tail(path)) ELSE Raise

RECURSIVE Canon(_, _)
\* a path that resolves in v, written with field names and indices from 0
Canon(v, path) ==
    IF path = <<>> THEN <<>>
    ELSE <<IF IsDict(v) THEN Key(DictKey(Head(path)))
           ELSE Idx(NormIdx(Len(v.q), Head(path).n) - 1)>>
         \o Canon(GetItem(v, Head(path)).v, Tail(path))

RECURSIVE PathsOf(_)
\* the paths of all fields and elements of v
PathsOf(v) ==
    {<<>>} \cup
    (IF IsDict(v)
     THEN UNION { { <<Key(k)>> \o q : q \in PathsOf(v.f[k]) } : k \in DOMAIN v.f }
     ELSE IF IsList(v)
     THEN UNION { { <<Idx(j - 1)>> \o q : q \in PathsOf(v.q[j]) } : j \in 1..Len(v.q) }
     ELSE {})

IsPrefix(p, q) == Len(p) <= Len(q) /\ SubSeq(q, 1, Len(p)) = p

\* two containers of the same kind and size (same keys, same length)
SameSize(a, b) ==
    /\ a.t = b.t
    /\ IsList(a) => Len(a.q) = Len(b.q)
    /\ IsDict(a) => DOMAIN a.f = DOMAIN b.f

\* nothing but the element at p differs between the two documents: every
\* field and element off p is the same, every container above p keeps its
\* size, and there is no new field or element outside p
FrameExcept(before, after, p) ==
    /\ \A q \in PathsOf(before) :
         IF IsPrefix(p, q) THEN TRUE
         ELSE IF IsPrefix(q, p)
         THEN Resolve(after, q).ok /\ SameSize(Resolve(before, q).v, Resolve(after, q).v)
         ELSE Resolve(after, q) = Resolve(before, q)
    /\ \A q \in PathsOf(after) : IsPrefix(p, q) \/ q \in PathsOf(before)

\* the command the loop has run last, and the document it ran on
LastCmd == commands[cmd_i - 1]
DocBefore == ApplyResolving(turn_start, SubSeq(commands, 1, cmd_i - 2))
HasRun(op) == cmd_i >= 2 /\ cmd_i - 1 <= Len(commands) /\ LastCmd.op = op

\* C15: a Set of value v at a path that resolves to an existing element makes
\* that element equal to v and leaves every other field and element of the
\* document, and the lengths of all arrays, unchanged.
C15_SetFrame ==
    (HasRun("Set") /\ LastCmd.path # <<>> /\ Resolve(DocBefore, LastCmd.path).ok) =>
        /\ exec_ok[cmd_i - 1]
        /\ Resolve(current_resume, LastCmd.path) = Ok(LastCmd.val)
        /\ FrameExcept(DocBefore, current_resume, Canon(DocBefore, LastCmd.path))

\* a Set at ['projects', 0, 'description', 0] has run on a document that has
\* that element
C15_Witness ==
    /\ HasRun("Set")
    /\ Len(LastCmd.path) = 4
    /\ Resolve(DocBefore, LastCmd.path).ok
    /\ Resolve(DocBefore, LastCmd.path).v # LastCmd.val
    /\ current_resume.f["projects"].q[1].f["description"].q = <<LastCmd.val>>

\* C16: Append(v) on an array of length n yields an array of length n+1
\* whose first n elements are the previous ones in their order and whose
\* last element is v; no other field changes.
C16_AppendSemantics ==
    (HasRun("Append") /\ Resolve(DocBefore, LastCmd.path).ok
        /\ IsList(Resolve(DocBefore, LastCmd.path).v)) =>
        LET old == Resolve(DocBefore, LastCmd.path).v.q
            new == Resolve(current_resume, LastCmd.path).v.q
        IN /\ exec_ok[cmd_i - 1]
           /\ Len(new) = Len(old) + 1
           /\ SubSeq(new, 1, Len(old)) = old
           /\ new[Len(new)] = LastCmd.val
           /\ FrameExcept(DocBefore, current_resume, Canon(DocBefore, LastCmd.path))

\* Append('Go') has run on skills = ['Python'] and skills is ['Python', 'Go']
C16_Witness ==
    /\ HasRun("Append")
    /\ LastCmd.path = <<Key("skills")>>
    /\ Resolve(DocBefore, LastCmd.path) = Ok(Lst(<<Str("Python")>>))
    /\ current_resume.f["skills"] = Lst(<<Str("Python"), Str("Go")>>)

\* C20: RemoveAt(i) on an array of length n is applied only when 0 <= i < n;
\* for any other index (i >= n or i negative) the command is skipped, and a
\* skipped command, of any kind, leaves the document exactly as it was
\* immediately before that command.
C20_RemoveAtBoundsChecked ==
    /\ (HasRun("RemoveAt") /\ Resolve(DocBefore, LastCmd.path).ok
            /\ IsList(Resolve(DocBefore, LastCmd.path).v)) =>
          (exec_ok[cmd_i - 1] <=>
              (0 <= LastCmd.idx /\ LastCmd.idx < Len(Resolve(DocBefore, LastCmd.path).v.q)))
    /\ (cmd_i >= 2 /\ cmd_i - 1 <= Len(commands) /\ ~exec_ok[cmd_i - 1]) =>
          current_resume = DocBefore

\* the fetch of the repository's README succeeded: its task brought text
Succeeded(repo_name) == Truthy(FetchReadme(repo_name, repos[repo_name]))

\* C17: for every set of repositories and every completion order of their
\* fetch tasks the map get_github_projects builds has exactly one entry per
\* repository whose README fetch succeeded; a fetch that fails neither ends
\* the collection nor removes the entries of the others.
C17_FetchAggregation ==
    pc \in {"fetch", "fetched"} =>
        /\ DOMAIN project_details = { r \in (DOMAIN repos) \ pending : Succeeded(r) }
        /\ \A r \in DOMAIN project_details :
             project_details[r] = FetchReadme(r, repos[r]).text
        /\ readme_count = Cardinality(DOMAIN project_details)
        /\ pc = "fetched" => pending = {}

\* three fetches, one of which failed, have all been collected and the map
\* has the two entries of the others
C17_Witness ==
    /\ pc = "fetched"
    /\ Cardinality(DOMAIN repos) = 3
    /\ Cardinality({ r \in DOMAIN repos : repos[r] = "error" }) = 1
    /\ Cardinality(DOMAIN project_details) = 2

\* the attempts the three loops are said to make at most
ClaimedAttempts(fn) == IF fn = "summarize_readme" THEN 3 ELSE 1

\* the loop has posted no more requests than its bound, and once as many
\* attempts as the bound have failed it has returned its fallback value
BoundedAttempts ==
    loop.fn \in LoopNames =>
        /\ attempts <= ClaimedAttempts(loop.fn)
        /\ loop_retry_count <= attempts
        /\ loop_retry_count = ClaimedAttempts(loop.fn) =>
             /\ pc = "loop_done"
             /\ loop_result.kind = "fallback"
             /\ loop_result.val = FallbackOf(loop)
        /\ loop_result.kind = "fallback" => loop_retry_count = ClaimedAttempts(loop.fn)

\* C18: each retry loop (update_resume_with_groq, generate_structured_resume,
\* summarize_readme) makes at most its max_retries attempts (1, 1 and 3) and
\* then returns its fallback value (the empty list, the fallback resume,
\* 'Project: <name> - Unable to generate summary'); whatever the service
\* does, the loop ends.
C18_BoundedRetries == []BoundedAttempts /\ <>(pc = "loop_done")

\* summarize_readme has failed three times and returned its fallback
C18_Witness ==
    /\ pc = "loop_done"
    /\ loop.fn = "summarize_readme"
    /\ attempts = 3
    /\ loop_result = LoopFallback(SummaryFallback(loop.arg))

\* the shape the prompt of generate_structured_resume declares, on the fields
\* the model keeps: overview is an object of scalars and is there, skills a
\* list of str, projects a list of objects whose description is a list of str
HasDocumentShape(doc) ==
    /\ WellShaped(doc)
    /\ "overview" \in DOMAIN doc.f
    /\ "skills" \in DOMAIN doc.f
    /\ "projects" \in DOMAIN doc.f

\* C19: in every state of the session that holds a document, the one stored
\* after generate_structured_resume fell back included, the document has the
\* declared shape: skills and projects are arrays of their element shape, the
\* overview fields are scalars.
C19_SchemaInvariant == ChatShown => HasDocumentShape(resume_data)

\* the container the last segment of the last command's path is applied to,
\* in the document the command ran on
ParentPath == SubSeq(LastCmd.path, 1, Len(LastCmd.path) - 1)
Terminal == LastCmd.path[Len(LastCmd.path)]
Parent == Resolve(DocBefore, ParentPath)

\* the terminal segment is an index of the array v: 0 <= i < len
InBounds(v, seg) == ~IsKey(seg) /\ 0 <= seg.n /\ seg.n < Len(v.q)

\* the terminal segment is an index behind the end of the array v
BeyondBounds(v, seg) == ~IsKey(seg) /\ seg.n >= Len(v.q)

\* C21: a Set is applied when its terminal segment names a key, existing or
\* new, of an object, or an index within the bounds of an array; a Set whose
\* terminal segment is an index beyond the bounds of an array is skipped,
\* and no Set makes an array longer.
C21_SetTargetRule ==
    (HasRun("Set") /\ LastCmd.path # <<>> /\ Parent.ok) =>
        /\ (IsDict(Parent.v) \/ (IsList(Parent.v) /\ InBounds(Parent.v, Terminal))) =>
              /\ exec_ok[cmd_i - 1]
              /\ Resolve(current_resume, LastCmd.path) = Ok(LastCmd.val)
        /\ (IsList(Parent.v) /\ BeyondBounds(Parent.v, Terminal)) =>
              /\ ~exec_ok[cmd_i - 1]
              /\ current_resume = DocBefore
        /\ IsList(Parent.v) =>
              /\ Resolve(current_resume, ParentPath).ok
              /\ IsList(Resolve(current_resume, ParentPath).v)
              /\ Len(Resolve(current_resume, ParentPath).v.q) = Len(Parent.v.q)

\* a Set at ['skills', 1] has run on a document whose skills has one element
\* and was skipped
C21_Witness ==
    /\ HasRun("Set")
    /\ LastCmd.path = <<Key("skills"), Idx(1)>>
    /\ Resolve(DocBefore, <<Key("skills")>>).ok
    /\ Len(DocBefore.f["skills"].q) = 1
    /\ ~exec_ok[cmd_i - 1]
    /\ current_resume = DocBefore

\* the target of the last command resolves to an array
TargetIsArray ==
    Resolve(DocBefore, LastCmd.path).ok /\ IsList(Resolve(DocBefore, LastCmd.path).v)

\* C22: an Append is applied only when its target resolves to an array; an
\* Append whose target is a map, a string or a path that does not resolve is
\* skipped and leaves the document unchanged.
C22_AppendTargetRule ==
    HasRun("Append") =>
        /\ exec_ok[cmd_i - 1] <=> TargetIsArray
        /\ ~TargetIsArray => current_resume = DocBefore

\* three Appends, to a map, to a string and to a missing field, have all
\* been skipped and the document returned is the one passed
C22_Witness ==
    /\ pc = "returned"
    /\ Len(commands) = 3
    /\ \A j \in 1..3 : commands[j].op = "Append"
    /\ commands[1].path = <<Key("overview")>>
    /\ commands[2].path = <<Key("overview"), Key("name")>>
    /\ commands[3].path = <<Key("languages")>>
    /\ exec_ok = <<FALSE, FALSE, FALSE>>
    /\ current_resume = turn_start

\* one command applied to a document: the document after it, which is the
\* document before it when the command does not resolve
ApplyOne(doc, cmd) ==
    IF ExecCommand(doc, cmd).ok THEN ExecCommand(doc, cmd).v ELSE doc

RECURSIVE FoldLeft(_, _)
\* the left-to-right fold of ApplyOne over the batch cs
FoldLeft(doc, cs) ==
    IF cs = <<>> THEN doc
    ELSE ApplyOne(FoldLeft(doc, SubSeq(cs, 1, Len(cs) - 1)), cs[Len(cs)])

\* C23: the commands are applied strictly in list order, each resolved
\* against the document as the commands before it left it, and the document
\* returned is the left-to-right fold of single-command application over
\* the batch.
C23_InOrderApplication ==
    /\ cmd_i >= 1 /\ cmd_i <= Len(commands) + 1
    /\ Len(exec_ok) = cmd_i - 1
    /\ \A j \in 1..Len(exec_ok) :
         exec_ok[j] = ExecCommand(FoldLeft(turn_start, SubSeq(commands, 1, j - 1)),
                                  commands[j]).ok
    /\ current_resume = FoldLeft(turn_start, SubSeq(commands, 1, cmd_i - 1))
    /\ pc = "returned" =>
         /\ cmd_i = Len(commands) + 1
         /\ current_resume = FoldLeft(turn_start, commands)

\* Append('Go') to skills = ['Python'], then a Set at ['skills', 1]: the
\* index of the Set is the element the Append made, and both were applied
C23_Witness ==
    /\ pc = "returned"
    /\ Len(commands) = 2
    /\ commands[1] = Cmd("Append", <<Key("skills")>>, Str("Go"), 0)
    /\ commands[2] = Cmd("Set", <<Key("skills"), Idx(1)>>, Str("Rust"), 0)
    /\ turn_start.f["skills"] = Lst(<<Str("Python")>>)
    /\ exec_ok = <<TRUE, TRUE>>
    /\ current_resume.f["skills"] = Lst(<<Str("Python"), Str("Rust")>>)

\* the reply to the loop's last request carried a content, and what lines
\* 130-148 made of it
ContentReceived == loop_answer.status = "ok" /\ loop_answer.body = "chat"
ParsedReply ==
    ParseCommands(ExtractPythonList(Strip(loop_answer.text)), loop_answer.lit, loop_answer.ev)

\* C24: update_resume_with_groq returns a non-empty result only when the
\* parsed value is a list all of whose elements are strings; when the parsed
\* value is no list or has an element that is no string the attempt counts
\* as failed and, the attempts used up, the result is the empty list.
C24_BatchIsStringList ==
    (loop.fn = "update_resume_with_groq" /\ pc = "loop_done") =>
        /\ (loop_result.kind = "value" /\ loop_result.val.commands # <<>>) =>
              /\ ContentReceived
              /\ ParsedReply.exc = ""
              /\ ParsedReply.val.shape = "strlist"
              /\ loop_result.val.commands = ParsedReply.val.cmds
        /\ (ContentReceived /\ ParsedReply.exc = "" /\ ParsedReply.val.shape # "strlist") =>
              /\ loop_retry_count = max_retries
              /\ loop_result = LoopFallback(<<>>)

\* the reply's list had an element that is no string: the one attempt
\* failed and the empty list was returned
C24_Witness ==
    /\ loop.fn = "update_resume_with_groq"
    /\ pc = "loop_done"
    /\ ContentReceived
    /\ loop_answer.lit = Outcome("value", Parsed("mixedlist", <<>>))
    /\ attempts = 1
    /\ loop_result = LoopFallback(<<>>)

\* the text the user commits is one handle_input_change is to dispatch
ToDispatch(txt) == txt # previous_input /\ Strip(txt) # <<>> /\ ~chat_processing

\* what a run of handle_input_change on the committed text txt may do
InputChangeEffect(txt) ==
    IF ToDispatch(txt)
    THEN /\ chat_messages' = Append(chat_messages, Msg("user", Strip(txt), 0, ""))
         /\ chat_processing'
         /\ resume_data' = resume_data
    ELSE UNCHANGED <<chat_messages, chat_processing, previous_input, resume_data>>

\* C25: handle_input_change dispatches the committed text only when it
\* differs from previous_input, is not blank and the busy flag is down, and
\* then appends one user message; in every other case the transcript, the
\* busy flag and the document stay as they are.
C25_DuplicateAndEmptySuppressed ==
    [][\A txt \in Inputs : HandleInputChange(txt) => InputChangeEffect(txt)]_vars

\* the text of the turn before was committed again and was not dispatched:
\* the box holds it, previous_input equals it, and the transcript still has
\* the one user message
C25_Witness ==
    /\ pc = "run"
    /\ ~chat_processing
    /\ Strip(sidebar_chat_input) # <<>>
    /\ sidebar_chat_input = previous_input
    /\ Cardinality({ j \in 1..Len(chat_messages) : chat_messages[j].type = "user" }) = 1

\* a step that empties a transcript that had messages
TranscriptEmptied == chat_messages # <<>> /\ chat_messages' = <<>>

\* C26: the clear-chat action sets the transcript to empty and
\* previous_input to the empty string and leaves the session's document and
\* the busy flag unchanged; nothing else empties the transcript.
C26_ClearChatFrame ==
    [][(ClearChat \/ TranscriptEmptied) =>
          /\ chat_messages' = <<>>
          /\ previous_input' = <<>>
          /\ resume_data' = resume_data
          /\ chat_processing' = chat_processing]_vars

\* the chat was cleared after a turn that changed the document: the
\* transcript is empty and the document is the changed one
C26_Witness ==
    /\ pc = "run"
    /\ chat_messages = <<>>
    /\ previous_input = <<>>
    /\ ~chat_processing
    /\ ChatShown
    /\ resume_data \notin InitialDocs \cup {FallbackResume}

\* summarize_readme: the first request names the model passed in, every
\* later one 'compound-beta-mini', there are at most 3, and after 3 failed
\* requests the result is 'Project: <repo_name> - Unable to generate summary'
AttemptSequence ==
    /\ Len(posted) = attempts
    /\ attempts <= 3
    /\ attempts >= 1 => posted[1] = loop.model
    /\ \A j \in 2..Len(posted) : posted[j] = "compound-beta-mini"
    /\ loop_retry_count = 3 =>
         /\ pc = "loop_done"
         /\ loop_result =
              LoopFallback(<<"Project:", loop.arg, "- Unable to generate summary">>)

\* summarize_readme has returned the text of an attempt that succeeded
SummaryReturned ==
    loop.fn = "summarize_readme" /\ pc = "loop_done" /\ loop_result.kind = "value"

\* C27: in summarize_readme the first attempt uses the model passed in,
\* every attempt after a request failure the model 'compound-beta-mini', at
\* most 3 attempts are made, the text of the first attempt that succeeds is
\* returned with its whitespace normalised, and after 3 request failures the
\* result is 'Project: <repo_name> - Unable to generate summary'.
C27_SummarizeAttempts ==
    loop.fn = "summarize_readme" =>
        /\ AttemptSequence
        /\ SummaryReturned => loop_result.val = JoinSplit(loop_answer.doc)

\* C27 as amended: the text returned is the text of the first attempt that
\* succeeds with every run of three quote characters removed and its
\* whitespace normalised; the rest as claimed.
C27_SummarizeAttemptsAmended ==
    loop.fn = "summarize_readme" =>
        /\ AttemptSequence
        /\ SummaryReturned =>
             /\ loop_answer.kind = "content"
             /\ loop_result.val = JoinSplit(RemoveTripleQuotes(loop_answer.doc))

\* two requests failed, the third, to 'compound-beta-mini', brought a text
\* with triple quotes, which was returned without them
C27_Witness ==
    /\ SummaryReturned
    /\ attempts = 3
    /\ loop.model # "compound-beta-mini"
    /\ posted = <<loop.model, "compound-beta-mini", "compound-beta-mini">>
    /\ loop_answer.doc = <<"q3", "a", " ", "q3", " ", "a">>
    /\ loop_result.val = <<"a", " ", "a">>

\* C28: the map generate_project_summaries_with_progress returns has the
\* keys of the map it was given, no more and no fewer; the value of a project
\* is what summarize_readme returned for it or, when summarize_readme raised,
\* the README content the project came with; and at every point of the loop
\* this holds of the projects it has been through, so that a failure for one
\* neither drops nor alters the entry of another.
C28_SummariesCoverEveryProject ==
    pc \in {"summarize", "summarized"} =>
        /\ DOMAIN summaries = DOMAIN outcomes
        /\ DOMAIN summaries \subseteq DOMAIN project_details
        /\ pc = "summarized" => DOMAIN summaries = DOMAIN project_details
        /\ \A k \in DOMAIN summaries :
             summaries[k] = IF outcomes[k].kind = "raised" THEN project_details[k]
                            ELSE outcomes[k].val

\* three projects: summarising one raised, one got the fixed string after
\* three failed requests, one got its summary
C28_Witness ==
    /\ pc = "summarized"
    /\ Cardinality(DOMAIN project_details) = 3
    /\ \E j, k, l \in DOMAIN summaries :
         /\ outcomes[j].kind = "raised" /\ summaries[j] = project_details[j]
         /\ outcomes[k].kind = "fallback"
         /\ summaries[k] = <<"Project:", k, "- Unable to generate summary">>
         /\ outcomes[l].kind = "value" /\ summaries[l] = <<"a", " ", "a">>

\* C29: the extractor applied to what it returned returns the same text,
\* for every reply text.
C29_ExtractionIdempotent ==
    pc = "extracted" => ExtractPythonList(extracted) = extracted

\* the pattern search gave a text whose brackets do not balance, so that the
\* second extraction fails at bracket matching where the first did not try it
C29_Witness ==
    /\ pc = "extracted"
    /\ extracted = <<"[", "[", "a", "]">>
    /\ Cleaned(response_text)[1] # "["
    /\ MatchingFails(extracted)

\* what ast.literal_eval and eval may make of a text
ParseOutcomes ==
    { Outcome("value", Parsed("strlist", <<>>)), Outcome("SyntaxError", NoValue) }

\* C30: the text the extractor returns starts with '[' and ends with ']', for
\* every reply text, so that line 134 of update_resume_with_groq never sends
\* it to the else branch that sets commands to [].
C30_ExtractionBracketDelimited ==
    pc = "extracted" =>
        /\ extracted # <<>>
        /\ Head(extracted) = "["
        /\ extracted[Len(extracted)] = "]"
        /\ \A lit, ev \in ParseOutcomes :
             ParseCommands(extracted, lit, ev).how # "not_bracketed"

\* a reply with no bracket in it: the extractor returned "[]"
C30_Witness ==
    /\ pc = "extracted"
    /\ FirstAt(response_text, "[", 1) = 0
    /\ Cleaned(response_text) # <<>>
    /\ extracted = <<"[", "]">>

====
